---- MODULE Spec2Model ----
(***************************************************************************)
(* A model of the FLAN-summarizer training harness:                        *)
(*   src/data.py            CustomDataset (text cleaning, tokenization)    *)
(*   src/lightning_base.py  BaseTransformer, generic_train                 *)
(*                                                                         *)
(* The harness is a set of independent entry points.  The variable `unit`  *)
(* says which entry point a behaviour exercises; Init draws the inputs of  *)
(* that entry point from bounded sets and the actions are the methods.     *)
(* Variables that belong to another entry point keep the value Idle.       *)
(*                                                                         *)
(* Python strings are sequences of one-character strings.  Floats that     *)
(* the code only compares with zero or copies (dropout rates, weight       *)
(* decay) are naturals; Python's None is the record None below.            *)
(***************************************************************************)
EXTENDS Integers, Sequences, FiniteSets, TLC

VARIABLES unit, pc,
          text, cleaned, recleaned,
          ds_args, adapter, error, item, printed,
          hparams, config_arg, hub_config, config, module,
          named_parameters, computed_steps, opt, returned,
          overridden, request, args, trainer

vars == <<unit, pc, text, cleaned, recleaned,
          ds_args, adapter, error, item, printed,
          hparams, config_arg, hub_config, config, module,
          named_parameters, computed_steps, opt, returned,
          overridden, request, args, trainer>>

Idle == "idle"

cleanVars == <<text, cleaned, recleaned>>
dataVars == <<ds_args, adapter, item, printed>>
moduleVars == <<hparams, config_arg, hub_config, config, module>>
optimVars == <<named_parameters, computed_steps, opt, returned>>
loaderVars == <<overridden, request>>
trainVars == <<args, trainer>>
OptimIdle ==
    /\ named_parameters = Idle /\ computed_steps = Idle
    /\ opt = Idle /\ returned = Idle
RunIdle ==
    /\ overridden = Idle /\ request = Idle
    /\ args = Idle /\ trainer = Idle


(* Bounds *)
MaxTextLen == 4
MaxDocLen == 3
MaxExamples == 1
MaxSeqLen == 3
MaxSamples == 2
MaxRate == 1
MaxTargetLen == 2
MaxParams == 2
MaxSteps == 2
MaxBatch == 2
MaxGpus == 2

(***************************************************************************)
(* Python values                                                           *)
(***************************************************************************)
None == [some |-> FALSE, v |-> 0]
Some(x) == [some |-> TRUE, v |-> x]
\* bool(x) of an optional number: None and 0 / 0.0 are falsy
Truthy(o) == o.some /\ o.v # 0

SP == " "
NL == "\n"
TAB == "\t"
\* the backtick character (the lexer of TLA+ admits no backtick in a string)
BT == "BACKTICK"
DQ == "\""
Chars == {SP, NL, BT, DQ, "a"}

Strings(alphabet, n) == UNION {[1..k -> alphabet] : k \in 0..n}

\* str.isspace for the characters of the model
IsSpace(c) == c \in {SP, NL, TAB}

RECURSIVE LStrip(_)
LStrip(s) == IF s = <<>> THEN s
             ELSE IF IsSpace(Head(s)) THEN LStrip(Tail(s)) ELSE s

RECURSIVE RStrip(_)
RStrip(s) == IF s = <<>> THEN s
             ELSE IF IsSpace(s[Len(s)]) THEN RStrip(SubSeq(s, 1, Len(s) - 1)) ELSE s

\* str.strip()
Strip(s) == RStrip(LStrip(s))

\* str.replace(old, new): left to right, non-overlapping occurrences
RECURSIVE Replace(_, _, _)
Replace(s, old, new) ==
    IF Len(s) < Len(old) THEN s
    ELSE IF SubSeq(s, 1, Len(old)) = old
         THEN new \o Replace(SubSeq(s, Len(old) + 1, Len(s)), old, new)
         ELSE <<Head(s)>> \o Replace(Tail(s), old, new)

\* (sub in s) for Python strings
Contains(s, sub) ==
    \E i \in 0..(Len(s) - Len(sub)) : SubSeq(s, i + 1, i + Len(sub)) = sub

(***************************************************************************)
(* CustomDataset.clean_text                                                *)
(***************************************************************************)
clean_text(t) ==
    LET t1 == Strip(t)
        t2 == Replace(t1, <<NL>>, <<>>)
        t3 == Replace(t2, <<BT, BT>>, <<>>)
        t4 == Replace(t3, <<DQ>>, <<>>)
    IN  t4

InitClean ==
    /\ unit = "clean_text"
    /\ pc = "input"
    /\ text \in Strings(Chars, MaxTextLen)
    /\ cleaned = Idle
    /\ recleaned = Idle
    /\ error = Idle
    /\ ds_args = Idle /\ adapter = Idle /\ item = Idle /\ printed = Idle
    /\ hparams = Idle /\ config_arg = Idle /\ hub_config = Idle /\ config = Idle /\ module = Idle
    /\ OptimIdle
    /\ RunIdle

\* one call of clean_text on the raw text
CleanText ==
    /\ unit = "clean_text"
    /\ pc = "input"
    /\ cleaned' = clean_text(text)
    /\ pc' = "cleaned"
    /\ UNCHANGED <<unit, text, recleaned, error, dataVars, moduleVars, optimVars, loaderVars, trainVars>>

\* a second call, on the first call's result
CleanAgain ==
    /\ unit = "clean_text"
    /\ pc = "cleaned"
    /\ recleaned' = clean_text(cleaned)
    /\ pc' = "recleaned"
    /\ UNCHANGED <<unit, text, cleaned, error, dataVars, moduleVars, optimVars, loaderVars, trainVars>>

(***************************************************************************)
(* The tokenizer (transformers): one token per character, then the         *)
(* end-of-sequence token; truncation=True keeps max_length tokens with the *)
(* end-of-sequence token last; padding="max_length" fills with the pad     *)
(* token; the attention mask is 1 on tokens and 0 on padding.              *)
(* return_tensors="pt" gives tensors of shape (batch, max_length).         *)
(***************************************************************************)
PadId == 0
EosId == 1
CharId == 2

Tensor(shape, data) == [shape |-> shape, data |-> data]

Tokens(s) == [i \in 1..Len(s) |-> CharId] \o <<EosId>>

Truncate(toks, max_length) ==
    IF Len(toks) > max_length
    THEN SubSeq(toks, 1, max_length - 1) \o <<EosId>>
    ELSE toks

batch_encode_plus(s, max_length) ==
    LET toks == Truncate(Tokens(s), max_length)
        ids  == [i \in 1..max_length |-> IF i <= Len(toks) THEN toks[i] ELSE PadId]
        mask == [i \in 1..max_length |-> IF i <= Len(toks) THEN 1 ELSE 0]
    IN  [input_ids      |-> Tensor(<<1, max_length>>, ids),
         attention_mask |-> Tensor(<<1, max_length>>, mask)]

\* torch.Tensor.squeeze(): every dimension of size 1 is removed
squeeze(t) == Tensor(SelectSeq(t.shape, LAMBDA d : d # 1), t.data)

(***************************************************************************)
(* CustomDataset                                                           *)
(***************************************************************************)
HasAttr(obj, name) == name \in DOMAIN obj

DocChars == {"a"}
Docs == Strings(DocChars, MaxDocLen)

\* a dataset of n examples: the columns text, headline and title
Datasets ==
    UNION {[text : [1..n -> Docs], headline : [1..n -> Docs],
            title : [1..n -> {<<"a">>}]] : n \in 0..MaxExamples}

NumSamples == {None} \cup {Some(k) : k \in 0..MaxSamples}

\* datasets.Dataset.select(range(0, n))
select(d, n) ==
    [text |-> SubSeq(d.text, 1, n), headline |-> SubSeq(d.headline, 1, n),
     title |-> SubSeq(d.title, 1, n)]

\* __init__ had it kept the dataset in self.dataset before limiting it
CustomDataset_init_keeping(a) ==
    LET self1 == [text |-> a.dataset.text, headline |-> a.dataset.headline,
                  title |-> a.dataset.title, dataset |-> a.dataset]
        rest  == [input_length |-> a.input_length, tokenizer |-> "tokenizer",
                  output_length |-> a.output_length, print_text |-> a.print_text]
    IN  IF Truthy(a.num_samples)
        THEN [error |-> "none",
              self  |-> [self1 EXCEPT !.dataset = select(@, a.num_samples.v)] @@ rest]
        ELSE [error |-> "none", self |-> self1 @@ rest]

\* __init__ as written, up to the sample-limiting step: the attributes
\* assigned so far are text, headline and title
CustomDataset_init(a) ==
    LET self1 == [text |-> a.dataset.text, headline |-> a.dataset.headline,
                  title |-> a.dataset.title]
        rest  == [input_length |-> a.input_length, tokenizer |-> "tokenizer",
                  output_length |-> a.output_length, print_text |-> a.print_text]
    IN  IF Truthy(a.num_samples)
        THEN IF HasAttr(self1, "dataset")
             THEN [error |-> "none",
                   self  |-> [dataset |-> select(self1.dataset, a.num_samples.v)]
                             @@ self1 @@ rest]
             ELSE [error |-> "AttributeError", self |-> self1]
        ELSE [error |-> "none", self |-> self1 @@ rest]

CustomDataset_len(self) == Len(self.text)

convert_to_features(self, t, headline) ==
    LET input_  == clean_text(t)
        target_ == clean_text(headline)
    IN  [printed |-> IF self.print_text
                     THEN <<"Input Text: ", clean_text(t)>> ELSE <<>>,
         source  |-> batch_encode_plus(input_, self.input_length),
         targets |-> batch_encode_plus(target_, self.output_length)]

\* index counts from 0, as in Python
CustomDataset_getitem(self, index) ==
    LET f == convert_to_features(self, self.text[index + 1], self.headline[index + 1])
    IN  [printed |-> f.printed,
         item |-> [input_ids      |-> squeeze(f.source.input_ids),
                   attention_mask |-> squeeze(f.source.attention_mask),
                   labels         |-> squeeze(f.targets.input_ids),
                   target_mask    |-> squeeze(f.targets.attention_mask)]]

InitDataset ==
    /\ unit = "dataset"
    /\ pc = "new"
    /\ ds_args \in [dataset : Datasets, input_length : 1..MaxSeqLen,
                    output_length : 1..MaxSeqLen, print_text : BOOLEAN,
                    num_samples : NumSamples]
    /\ adapter = Idle /\ error = Idle /\ item = Idle /\ printed = Idle
    /\ text = Idle /\ cleaned = Idle /\ recleaned = Idle
    /\ hparams = Idle /\ config_arg = Idle /\ hub_config = Idle /\ config = Idle /\ module = Idle
    /\ OptimIdle
    /\ RunIdle

\* CustomDataset(dataset, tokenizer, input_length, output_length, ...)
Construct ==
    /\ unit = "dataset"
    /\ pc = "new"
    /\ LET r == CustomDataset_init(ds_args)
       IN  /\ error' = r.error
           /\ adapter' = r.self
           /\ pc' = IF r.error = "none" THEN "constructed" ELSE "failed"
    /\ UNCHANGED <<unit, ds_args, item, printed, cleanVars, moduleVars, optimVars, loaderVars, trainVars>>

\* adapter[index] for a valid index
GetItem ==
    /\ unit = "dataset"
    /\ pc \in {"constructed", "item"}
    /\ \E index \in 0..(CustomDataset_len(adapter) - 1) :
         LET r == CustomDataset_getitem(adapter, index)
         IN  /\ item' = [index |-> index] @@ r.item
             /\ printed' = r.printed
    /\ pc' = "item"
    /\ UNCHANGED <<unit, ds_args, adapter, error, cleanVars, moduleVars, optimVars, loaderVars, trainVars>>

(***************************************************************************)
(* BaseTransformer.__init__                                                *)
(***************************************************************************)
extra_model_params ==
    <<"encoder_layerdrop", "decoder_layerdrop", "dropout", "attention_dropout">>

ExtraNames == {extra_model_params[i] : i \in 1..Len(extra_model_params)}

Rates == 0..MaxRate
OptRates == {None} \cup {Some(r) : r \in Rates}

\* a model config: the attributes it has among the four, with their values
Configs == UNION {[A -> Rates] : A \in SUBSET ExtraNames}
StartConfigs == {c \in Configs : \A p, q \in DOMAIN c : c[p] = c[q]}

HParams ==
    [encoder_layerdrop : OptRates, decoder_layerdrop : OptRates,
     dropout : OptRates, attention_dropout : OptRates,
     max_target_length : 1..MaxTargetLen,
     val_max_target_length : 1..MaxTargetLen,
     test_max_target_length : 1..MaxTargetLen]

\* the loop over extra_model_params, from position i: an override that is
\* truthy is asserted to name an attribute of the config and then set
RECURSIVE ApplyOverrides(_, _, _)
ApplyOverrides(hp, cfg, i) ==
    IF i > Len(extra_model_params) THEN [error |-> "none", config |-> cfg]
    ELSE LET p == extra_model_params[i]
         IN  IF Truthy(hp[p])
             THEN IF HasAttr(cfg, p)
                  THEN ApplyOverrides(hp, [cfg EXCEPT ![p] = hp[p].v], i + 1)
                  ELSE [error |-> "AssertionError", config |-> cfg]
             ELSE ApplyOverrides(hp, cfg, i + 1)

target_lens(hp) ==
    [train |-> hp.max_target_length, val |-> hp.val_max_target_length,
     test |-> hp.test_max_target_length]

\* the first assertion alone
TargetLensOk_ValOnly(lens) == lens.train <= lens.val

\* the two assertions on target_lens
TargetLensOk(lens) == lens.train <= lens.val /\ lens.train <= lens.test

\* config_arg is the config argument (None: resolved by AutoConfig from the
\* hub, which gives hub_cfg).  The result holds the outcome, the config
\* object as the constructor leaves it, and the module when one is produced.
BaseTransformer_init(hp, cfg_arg, hub_cfg) ==
    LET cfg0 == IF cfg_arg.some THEN cfg_arg.v ELSE hub_cfg
        o    == ApplyOverrides(hp, cfg0, 1)
        lens == target_lens(hp)
    IN  IF o.error # "none"
        THEN [error |-> o.error, config |-> o.config, module |-> None]
        ELSE IF ~TargetLensOk(lens)
        THEN [error |-> "AssertionError", config |-> o.config, module |-> None]
        ELSE [error |-> "none", config |-> o.config,
              module |-> Some([step_count |-> 0, tokenizer |-> "tokenizer",
                               model |-> "model", target_lens |-> lens])]

\* hub_config is the config the hub holds for model_name_or_path; a caller
\* that passes a config passes one with the same content
InitModule ==
    /\ unit = "module"
    /\ pc = "new"
    /\ hparams \in HParams
    /\ hub_config \in StartConfigs
    /\ config_arg \in {None, Some(hub_config)}
    /\ config = Idle /\ module = Idle /\ error = Idle
    /\ text = Idle /\ cleaned = Idle /\ recleaned = Idle
    /\ ds_args = Idle /\ adapter = Idle /\ item = Idle /\ printed = Idle
    /\ OptimIdle
    /\ RunIdle

\* BaseTransformer(hparams, config=config_arg)
ConstructModule ==
    /\ unit = "module"
    /\ pc = "new"
    /\ LET r == BaseTransformer_init(hparams, config_arg, hub_config)
       IN  /\ error' = r.error
           /\ config' = r.config
           /\ module' = r.module
           /\ pc' = IF r.error = "none" THEN "constructed" ELSE "failed"
    /\ UNCHANGED <<unit, hparams, config_arg, hub_config, cleanVars, dataVars, optimVars,
                   loaderVars, trainVars>>

(***************************************************************************)
(* BaseTransformer.configure_optimizers and get_lr_scheduler               *)
(*                                                                         *)
(* A parameter name is the sequence of its dot-separated components        *)
(* ("encoder.bias" is <<"encoder", "bias">>), and no component of the      *)
(* model contains another: (nd in n) of the code is then Contains on the   *)
(* component sequences.                                                    *)
(***************************************************************************)
NameAtoms == {"encoder", "bias", "LayerNorm", "weight"}

\* one or two components, or two components under the module encoder
ParamNames ==
    {<<a>> : a \in NameAtoms}
        \cup {<<a, b>> : a \in NameAtoms, b \in NameAtoms}
        \cup {<<"encoder", a, b>> : a \in NameAtoms, b \in NameAtoms}

\* model.named_parameters(): each name once, in the model's order
ParamLists ==
    {l \in UNION {[1..n -> ParamNames] : n \in 0..MaxParams} :
        \A i, j \in 1..Len(l) : i # j => l[i] # l[j]}

arg_to_scheduler ==
    [linear            |-> "get_linear_schedule_with_warmup",
     cosine            |-> "get_cosine_schedule_with_warmup",
     cosine_w_restarts |-> "get_cosine_with_hard_restarts_schedule_with_warmup",
     polynomial        |-> "get_polynomial_decay_schedule_with_warmup"]

no_decay == << <<"bias">>, <<"LayerNorm", "weight">> >>

\* all(...) in place of any(...)
AllNoDecay(n) == \A k \in 1..Len(no_decay) : Contains(n, no_decay[k])

\* any(nd in n for nd in no_decay)
AnyNoDecay(n) == \E k \in 1..Len(no_decay) : Contains(n, no_decay[k])

optimizer_grouped_parameters(params, hp) ==
    << [params |-> SelectSeq(params, LAMBDA n : ~AnyNoDecay(n)),
        weight_decay |-> hp.weight_decay],
       [params |-> SelectSeq(params, LAMBDA n : AnyNoDecay(n)),
        weight_decay |-> 0] >>

\* the optimizer chosen by hparams.adafactor
MakeOptimizer(groups, hp) ==
    IF hp.adafactor
    THEN [kind |-> "Adafactor", param_groups |-> groups, lr |-> hp.learning_rate,
          options |-> [scale_parameter |-> FALSE, relative_step |-> FALSE]]
    ELSE [kind |-> "AdamW", param_groups |-> groups, lr |-> hp.learning_rate,
          options |-> [eps |-> hp.adam_epsilon]]

\* the number of optimization steps of the run, computed by the task module
total_steps == computed_steps

\* a schedule stepped once per epoch
get_lr_scheduler_per_epoch(self_opt, hp) ==
    IF hp.lr_scheduler \notin DOMAIN arg_to_scheduler
    THEN [error |-> "KeyError", scheduler |-> None]
    ELSE [error |-> "none",
          scheduler |-> Some([scheduler |-> [factory |-> arg_to_scheduler[hp.lr_scheduler],
                                             optimizer |-> self_opt,
                                             num_warmup_steps |-> hp.warmup_steps,
                                             num_training_steps |-> total_steps],
                              interval |-> "epoch",
                              frequency |-> 1])]

get_lr_scheduler(self_opt, hp) ==
    IF hp.lr_scheduler \notin DOMAIN arg_to_scheduler
    THEN [error |-> "KeyError", scheduler |-> None]
    ELSE [error |-> "none",
          scheduler |-> Some([scheduler |-> [factory |-> arg_to_scheduler[hp.lr_scheduler],
                                             optimizer |-> self_opt,
                                             num_warmup_steps |-> hp.warmup_steps,
                                             num_training_steps |-> total_steps],
                              interval |-> "step",
                              frequency |-> 1])]

\* the result holds self.opt as the call leaves it and the returned pair
configure_optimizers(params, hp) ==
    LET optimizer == MakeOptimizer(optimizer_grouped_parameters(params, hp), hp)
        s == get_lr_scheduler(optimizer, hp)
    IN  IF s.error # "none"
        THEN [error |-> s.error, opt |-> optimizer, returned |-> None]
        ELSE [error |-> "none", opt |-> optimizer,
              returned |-> Some([optimizers |-> <<optimizer>>,
                                 schedulers |-> <<s.scheduler.v>>])]

SchedulerKinds == DOMAIN arg_to_scheduler \cup {"constant"}

\* hyperparameters at the defaults of add_model_specific_args: learning_rate
\* in units of 1e-5, weight_decay in units of 0.01, adam_epsilon of 1e-8
DefaultOptimHParams ==
    [weight_decay |-> 1, adafactor |-> TRUE, learning_rate |-> 5,
     adam_epsilon |-> 1, lr_scheduler |-> "linear", warmup_steps |-> 0]

OptimHParams ==
    [weight_decay : 0..1, adafactor : BOOLEAN, learning_rate : {5},
     adam_epsilon : {1}, lr_scheduler : SchedulerKinds,
     warmup_steps : 0..MaxSteps]

\* any model under the default hyperparameters, or a two-parameter model
\* under any hyperparameters
InitOptim ==
    /\ unit = "optimizers"
    /\ pc = "new"
    /\ \/ /\ named_parameters \in ParamLists
          /\ hparams = DefaultOptimHParams
          /\ computed_steps = MaxSteps
       \/ /\ named_parameters = << <<"encoder", "weight">>, <<"encoder", "bias">> >>
          /\ hparams \in OptimHParams
          /\ computed_steps \in 1..MaxSteps
    /\ opt = Idle /\ returned = Idle /\ error = Idle
    /\ text = Idle /\ cleaned = Idle /\ recleaned = Idle
    /\ ds_args = Idle /\ adapter = Idle /\ item = Idle /\ printed = Idle
    /\ config_arg = Idle /\ hub_config = Idle /\ config = Idle /\ module = Idle
    /\ RunIdle

ConfigureOptimizers ==
    /\ unit = "optimizers"
    /\ pc = "new"
    /\ LET r == configure_optimizers(named_parameters, hparams)
       IN  /\ error' = r.error
           /\ opt' = r.opt
           /\ returned' = r.returned
    /\ pc' = "configured"
    /\ UNCHANGED <<unit, hparams, named_parameters, computed_steps, config_arg,
                   hub_config, config, module, cleanVars, dataVars,
                   loaderVars, trainVars>>

(***************************************************************************)
(* The dataloader methods of BaseTransformer                               *)
(***************************************************************************)
NoneStr == [some |-> FALSE, v |-> ""]

\* BaseTransformer.get_dataloader
get_dataloader(type_path, batch_size, shuffle) ==
    [error |-> "NotImplementedError", request |-> NoneStr, returned |-> NoneStr]

\* get_dataloader as a task module overrides it: a dataloader over the split
task_get_dataloader(type_path, batch_size, shuffle) ==
    [error |-> "none",
     request |-> Some([type_path |-> type_path, batch_size |-> batch_size,
                       shuffle |-> shuffle]),
     returned |-> Some("DataLoader")]

\* self.get_dataloader(...): the override when the class of self has one
self_get_dataloader(has_override, type_path, batch_size, shuffle) ==
    IF has_override THEN task_get_dataloader(type_path, batch_size, shuffle)
    ELSE get_dataloader(type_path, batch_size, shuffle)

train_dataloader(has_override, hp) ==
    self_get_dataloader(has_override, "train", hp.train_batch_size, TRUE)

\* validation batches of the training batch size
val_dataloader_train_size(has_override, hp) ==
    self_get_dataloader(has_override, "dev", hp.train_batch_size, FALSE)

val_dataloader(has_override, hp) ==
    self_get_dataloader(has_override, "dev", hp.eval_batch_size, FALSE)

test_dataloader(has_override, hp) ==
    self_get_dataloader(has_override, "test", hp.eval_batch_size, FALSE)

InitLoaders ==
    /\ unit = "dataloaders"
    /\ pc = "ready"
    /\ overridden \in BOOLEAN
    /\ hparams \in [train_batch_size : 1..MaxBatch, eval_batch_size : 1..MaxBatch]
    /\ request = Idle /\ returned = Idle /\ error = Idle
    /\ named_parameters = Idle /\ computed_steps = Idle /\ opt = Idle
    /\ args = Idle /\ trainer = Idle
    /\ text = Idle /\ cleaned = Idle /\ recleaned = Idle
    /\ ds_args = Idle /\ adapter = Idle /\ item = Idle /\ printed = Idle
    /\ config_arg = Idle /\ hub_config = Idle /\ config = Idle /\ module = Idle

LoaderCall(name, r) ==
    /\ unit = "dataloaders"
    /\ error' = r.error
    /\ request' = r.request
    /\ returned' = r.returned
    /\ pc' = name
    /\ UNCHANGED <<unit, hparams, overridden, named_parameters, computed_steps, opt,
                   config_arg, hub_config, config, module, cleanVars, dataVars,
                   trainVars>>

TrainDataloader == LoaderCall("train_dataloader", train_dataloader(overridden, hparams))

ValDataloader == LoaderCall("val_dataloader", val_dataloader(overridden, hparams))

TestDataloader == LoaderCall("test_dataloader", test_dataloader(overridden, hparams))

(***************************************************************************)
(* generic_train                                                           *)
(***************************************************************************)
DeepSpeedStage3Plugin ==
    "DeepSpeedPlugin(stage=3, offload_optimizer=True, offload_parameters=True, load_full_weights=True)"

OptStr(x) == {NoneStr, Some(x)}

TrainHParams ==
    [local : BOOLEAN, deepspeed_stage_3 : BOOLEAN,
     accumulate_grad_batches : 1..MaxBatch, output_dir : {"out"}]

TrainArgs ==
    [seed : {42}, val_metric : {"rouge2"}, gradient_clip_val : {1},
     val_check_interval : {15}, num_sanity_val_steps : -1..1, gpus : 0..MaxGpus,
     resume_from_checkpoint : OptStr("last.ckpt"), debug_mode : BOOLEAN,
     logger_name : OptStr("wandb"), id : OptStr("run")]

\* the train_params dictionary, statement by statement
train_params(hp, a) ==
    LET p1 == [accumulate_grad_batches |-> hp.accumulate_grad_batches,
               precision |-> 16,
               strategy |-> Some("deepspeed_stage_2")]
        p2 == IF hp.deepspeed_stage_3
              THEN [[p1 EXCEPT !.strategy = Some(DeepSpeedStage3Plugin)]
                        EXCEPT !.strategy = Some("ddp_sharded")]
              ELSE p1
        p3 == p2 @@ [profiler |-> NoneStr,
                     gradient_clip_val |-> a.gradient_clip_val,
                     val_check_interval |-> a.val_check_interval,
                     num_sanity_val_steps |-> a.num_sanity_val_steps,
                     gpus |-> a.gpus]
        p4 == IF hp.local
              THEN [p3 EXCEPT !.precision = 32, !.num_sanity_val_steps = 10,
                              !.gpus = 0, !.strategy = NoneStr]
              ELSE p3
        p5 == IF a.resume_from_checkpoint.some
              THEN p4 @@ [resume_from_checkpoint |-> a.resume_from_checkpoint.v]
              ELSE p4
        p6 == IF a.debug_mode
              THEN p5 @@ [limit_train_batches |-> 20, limit_val_batches |-> 2]
              ELSE p5
    IN  p6

\* generated is what wandb.util.generate_id() gives when args.id is None
generic_train(hp, a, generated) ==
    LET checkpoint_callback ==
            [dirpath |-> hp.output_dir, monitor |-> a.val_metric,
             mode |-> "max", save_top_k |-> 1]
        logger ==
            IF a.logger_name = Some("wandb")
            THEN [wandb |-> TRUE, id |-> IF a.id.some THEN a.id.v ELSE generated]
            ELSE [wandb |-> FALSE, id |-> ""]
    IN  [seed |-> a.seed, callbacks |-> <<checkpoint_callback>>,
         logger |-> logger, params |-> train_params(hp, a), fit |-> TRUE]

InitTrain ==
    /\ unit = "generic_train"
    /\ pc = "ready"
    /\ hparams \in TrainHParams
    /\ args \in TrainArgs
    /\ trainer = Idle /\ error = Idle
    /\ overridden = Idle /\ request = Idle
    /\ OptimIdle
    /\ text = Idle /\ cleaned = Idle /\ recleaned = Idle
    /\ ds_args = Idle /\ adapter = Idle /\ item = Idle /\ printed = Idle
    /\ config_arg = Idle /\ hub_config = Idle /\ config = Idle /\ module = Idle

GenericTrain ==
    /\ unit = "generic_train"
    /\ pc = "ready"
    /\ \E generated \in {"id1", "id2"} :
         trainer' = generic_train(hparams, args, generated)
    /\ pc' = "fitted"
    /\ UNCHANGED <<unit, hparams, args, error, config_arg, hub_config, config, module,
                   cleanVars, dataVars, optimVars, loaderVars>>

Init ==
    \/ InitClean
    \/ InitDataset
    \/ InitModule
    \/ InitOptim
    \/ InitLoaders
    \/ InitTrain

Next ==
    \/ CleanText
    \/ CleanAgain
    \/ Construct
    \/ GetItem
    \/ ConstructModule
    \/ ConfigureOptimizers
    \/ TrainDataloader
    \/ ValDataloader
    \/ TestDataloader
    \/ GenericTrain

Spec == Init /\ [][Next]_vars

(***************************************************************************)
(* Properties                                                              *)
(***************************************************************************)

(***************************************************************************)
(* C1: for every input string the result of clean_text holds no newline,   *)
(* no doubled backtick and no double quote, and has no leading or          *)
(* trailing whitespace.                                                    *)
(***************************************************************************)
C1_CleanTextRemovesAll ==
    (unit = "clean_text" /\ pc = "cleaned") =>
        /\ ~Contains(cleaned, <<NL>>)
        /\ ~Contains(cleaned, <<BT, BT>>)
        /\ ~Contains(cleaned, <<DQ>>)
        /\ Strip(cleaned) = cleaned

\* What one pass does guarantee: no newline and no double quote are left.
CleanTextRemovesNewlinesAndQuotes ==
    (unit = "clean_text" /\ pc = "cleaned") =>
        /\ ~Contains(cleaned, <<NL>>)
        /\ ~Contains(cleaned, <<DQ>>)

IsSequenceOf(t, n) == t.shape = <<n>> /\ Len(t.data) = n

MaskParallel(ids, mask) ==
    /\ Len(ids.data) = Len(mask.data)
    /\ \A i \in 1..Len(mask.data) :
         /\ mask.data[i] \in {0, 1}
         /\ mask.data[i] = 0 <=> ids.data[i] = PadId

(***************************************************************************)
(* C2: for every valid index, input_ids and attention_mask are sequences   *)
(* of exactly input_length elements, labels and target_mask sequences of   *)
(* exactly output_length elements, and each mask is 1 exactly where its    *)
(* id sequence holds a token and 0 where it holds padding.                 *)
(***************************************************************************)
C2_FixedLengthExamples ==
    (unit = "dataset" /\ pc = "item") =>
        /\ IsSequenceOf(item.input_ids, ds_args.input_length)
        /\ IsSequenceOf(item.attention_mask, ds_args.input_length)
        /\ IsSequenceOf(item.labels, ds_args.output_length)
        /\ IsSequenceOf(item.target_mask, ds_args.output_length)
        /\ MaskParallel(item.input_ids, item.attention_mask)
        /\ MaskParallel(item.labels, item.target_mask)

\* The statement of C2 holds of every example whose configured lengths are
\* both at least 2: only a length of 1 is squeezed away.
FixedLengthFromTwo ==
    (unit = "dataset" /\ pc = "item"
       /\ ds_args.input_length >= 2 /\ ds_args.output_length >= 2) =>
        C2_FixedLengthExamples

LensConsistent ==
    /\ hparams.max_target_length <= hparams.val_max_target_length
    /\ hparams.max_target_length <= hparams.test_max_target_length

OverridesResolvable ==
    \A p \in ExtraNames :
        (hparams[p].some /\ hparams[p].v # 0) => p \in DOMAIN hub_config

(***************************************************************************)
(* C3 (as stated): construction of BaseTransformer succeeds if and only if *)
(* max_target_length <= val_max_target_length and max_target_length <=     *)
(* test_max_target_length; when the training length exceeds either, it     *)
(* fails with an assertion error and no module is produced.                *)
(***************************************************************************)
C3_SucceedsIffTargetLens ==
    (unit = "module" /\ pc \in {"constructed", "failed"}) =>
        /\ error = "none" <=> LensConsistent
        /\ ~LensConsistent => (error = "AssertionError" /\ ~module.some)

(***************************************************************************)
(* C3 (as amended): construction succeeds if and only if the target        *)
(* lengths are consistent and every override with a truthy value names an  *)
(* attribute the config has; when the training length exceeds the          *)
(* validation or the test length, it fails with an assertion error and no  *)
(* module is produced.                                                     *)
(***************************************************************************)
C3_SucceedsIffLensAndOverrides ==
    (unit = "module" /\ pc \in {"constructed", "failed"}) =>
        /\ error = "none" <=> (LensConsistent /\ OverridesResolvable)
        /\ error = "none" <=> module.some
        /\ ~LensConsistent => (error = "AssertionError" /\ ~module.some)

\* train exceeds val but not test, with resolvable overrides: rejected
C3_Witness ==
    /\ unit = "module" /\ pc = "failed"
    /\ OverridesResolvable
    /\ hparams.max_target_length > hparams.val_max_target_length
    /\ hparams.max_target_length <= hparams.test_max_target_length

Occurrences(l, x) == Cardinality({i \in 1..Len(l) : l[i] = x})

ElemsOf(l) == {l[i] : i \in 1..Len(l)}

IsBiasOrNorm(n) ==
    \/ \E i \in 1..Len(n) : n[i] = "bias"
    \/ \E i \in 1..(Len(n) - 1) : n[i] = "LayerNorm" /\ n[i + 1] = "weight"

(***************************************************************************)
(* C4: configure_optimizers puts the model's named parameters into exactly *)
(* two groups, every parameter in exactly one of them: the parameters      *)
(* whose name holds "bias" or "LayerNorm.weight" in the group with weight  *)
(* decay 0.0, every other parameter in the group with the configured       *)
(* weight_decay.                                                           *)
(***************************************************************************)
C4_TwoGroupsPartition ==
    (unit = "optimizers" /\ pc = "configured") =>
        LET g == opt.param_groups
        IN  /\ Len(g) = 2
            /\ g[1].weight_decay = hparams.weight_decay
            /\ g[2].weight_decay = 0
            /\ ElemsOf(g[1].params) \cup ElemsOf(g[2].params)
                 = ElemsOf(named_parameters)
            /\ \A n \in ElemsOf(named_parameters) :
                 /\ Occurrences(g[1].params, n) + Occurrences(g[2].params, n) = 1
                 /\ IsBiasOrNorm(n) <=> n \in ElemsOf(g[2].params)

\* encoder.bias is in the zero-decay group and encoder.weight in the other
C4_Witness ==
    /\ unit = "optimizers" /\ pc = "configured"
    /\ hparams.weight_decay # 0
    /\ <<"encoder", "bias">> \in ElemsOf(opt.param_groups[2].params)
    /\ <<"encoder", "weight">> \in ElemsOf(opt.param_groups[1].params)

(***************************************************************************)
(* C5: for each of the four override names: an override that is present    *)
(* (any value, 0.0 included) on a config that has the attribute is the     *)
(* attribute's value after construction; a present override on a config    *)
(* without the attribute fails construction with an assertion error; an    *)
(* absent override leaves the attribute unchanged.                         *)
(***************************************************************************)
C5_OverridesApplied ==
    (unit = "module" /\ pc \in {"constructed", "failed"}) =>
        \A p \in ExtraNames :
            /\ (hparams[p].some /\ p \in DOMAIN hub_config /\ pc = "constructed")
                 => config[p] = hparams[p].v
            /\ (hparams[p].some /\ p \notin DOMAIN hub_config)
                 => (pc = "failed" /\ error = "AssertionError")
            /\ ~hparams[p].some
                 => /\ p \in DOMAIN config <=> p \in DOMAIN hub_config
                    /\ p \in DOMAIN hub_config => config[p] = hub_config[p]

\* What the constructor does: the same with "present" read as "truthy", a
\* value other than None and 0.0.
TruthyOverridesApplied ==
    (unit = "module" /\ pc \in {"constructed", "failed"}) =>
        \A p \in ExtraNames :
            /\ (hparams[p].some /\ hparams[p].v # 0 /\ p \in DOMAIN hub_config
                  /\ pc = "constructed")
                 => config[p] = hparams[p].v
            /\ (hparams[p].some /\ hparams[p].v # 0 /\ p \notin DOMAIN hub_config)
                 => (pc = "failed" /\ error = "AssertionError")
            /\ ~(hparams[p].some /\ hparams[p].v # 0)
                 => /\ p \in DOMAIN config <=> p \in DOMAIN hub_config
                    /\ p \in DOMAIN hub_config => config[p] = hub_config[p]

RegisteredFactory(kind) ==
    CASE kind = "linear" -> "get_linear_schedule_with_warmup"
      [] kind = "cosine" -> "get_cosine_schedule_with_warmup"
      [] kind = "cosine_w_restarts" -> "get_cosine_with_hard_restarts_schedule_with_warmup"
      [] kind = "polynomial" -> "get_polynomial_decay_schedule_with_warmup"

RegistryKinds == {"linear", "cosine", "cosine_w_restarts", "polynomial"}

(***************************************************************************)
(* C6: for each scheduler kind of the registry, configure_optimizers       *)
(* returns one optimizer and one schedule entry, whose scheduler is built  *)
(* by the factory registered for the kind from the returned optimizer,     *)
(* warmup_steps and the total training steps, with interval "step" and     *)
(* frequency 1; a kind outside the registry yields an error and no         *)
(* schedule.                                                               *)
(***************************************************************************)
C6_StepwiseSchedule ==
    (unit = "optimizers" /\ pc = "configured") =>
        /\ hparams.lr_scheduler \in RegistryKinds =>
             /\ error = "none"
             /\ returned.some
             /\ Len(returned.v.optimizers) = 1
             /\ Len(returned.v.schedulers) = 1
             /\ LET o == returned.v.optimizers[1]
                    e == returned.v.schedulers[1]
                IN  /\ o = opt
                    /\ o.kind = IF hparams.adafactor THEN "Adafactor" ELSE "AdamW"
                    /\ e.scheduler.factory = RegisteredFactory(hparams.lr_scheduler)
                    /\ e.scheduler.optimizer = o
                    /\ e.scheduler.num_warmup_steps = hparams.warmup_steps
                    /\ e.scheduler.num_training_steps = computed_steps
                    /\ e.interval = "step"
                    /\ e.frequency = 1
        /\ hparams.lr_scheduler \notin RegistryKinds =>
             /\ error = "KeyError"
             /\ ~returned.some

\* a cosine schedule with warmup has been returned
C6_Witness ==
    /\ unit = "optimizers" /\ pc = "configured"
    /\ hparams.lr_scheduler = "cosine"
    /\ hparams.warmup_steps > 0
    /\ returned.some
    /\ returned.v.schedulers[1].interval = "step"

\* a kind outside the registry has been refused
UnknownKindRefused ==
    /\ unit = "optimizers" /\ pc = "configured"
    /\ hparams.lr_scheduler = "constant"
    /\ error = "KeyError"

Requested(type_path, batch_size, shuffle) ==
    /\ error = "none"
    /\ returned.some
    /\ request.some
    /\ request.v.type_path = type_path
    /\ request.v.batch_size = batch_size
    /\ request.v.shuffle = shuffle

(***************************************************************************)
(* C7: on a module that does not override get_dataloader, train_dataloader,*)
(* val_dataloader and test_dataloader each end in NotImplementedError and  *)
(* return no dataloader; on a module that overrides it, they request       *)
(* ("train", train_batch_size, shuffle on), ("dev", eval_batch_size,       *)
(* shuffle off) and ("test", eval_batch_size, shuffle off).                *)
(***************************************************************************)
C7_DataloaderContract ==
    (unit = "dataloaders" /\ pc # "ready") =>
        /\ ~overridden =>
             (error = "NotImplementedError" /\ ~returned.some /\ ~request.some)
        /\ (overridden /\ pc = "train_dataloader") =>
             Requested("train", hparams.train_batch_size, TRUE)
        /\ (overridden /\ pc = "val_dataloader") =>
             Requested("dev", hparams.eval_batch_size, FALSE)
        /\ (overridden /\ pc = "test_dataloader") =>
             Requested("test", hparams.eval_batch_size, FALSE)

\* val_dataloader on a module with the override, the batch sizes differing
C7_Witness ==
    /\ unit = "dataloaders" /\ pc = "val_dataloader"
    /\ overridden
    /\ request.some
    /\ hparams.train_batch_size # hparams.eval_batch_size

\* test_dataloader on a module without the override
BaseModuleRefuses ==
    /\ unit = "dataloaders" /\ pc = "test_dataloader"
    /\ ~overridden
    /\ error = "NotImplementedError"

(***************************************************************************)
(* C8: generic_train hands the trainer, when local is set, precision 32,   *)
(* 0 GPUs, 10 sanity validation steps and no strategy; otherwise           *)
(* precision 16 and, as strategy, the DeepSpeed stage-3 plugin when        *)
(* deepspeed_stage_3 is set and "deepspeed_stage_2" when it is not.        *)
(***************************************************************************)
C8_PrecisionAndStrategy ==
    (unit = "generic_train" /\ pc = "fitted") =>
        LET p == trainer.params
        IN  /\ hparams.local =>
                 /\ p.precision = 32
                 /\ p.gpus = 0
                 /\ p.num_sanity_val_steps = 10
                 /\ ~p.strategy.some
            /\ ~hparams.local =>
                 /\ p.precision = 16
                 /\ p.strategy.some
                 /\ hparams.deepspeed_stage_3 => p.strategy.v = DeepSpeedStage3Plugin
                 /\ ~hparams.deepspeed_stage_3 => p.strategy.v = "deepspeed_stage_2"

\* What generic_train does: the plugin is overwritten, and the strategy of
\* deepspeed_stage_3 is "ddp_sharded".
ShardedStrategy ==
    (unit = "generic_train" /\ pc = "fitted") =>
        LET p == trainer.params
        IN  /\ hparams.local =>
                 /\ p.precision = 32
                 /\ p.gpus = 0
                 /\ p.num_sanity_val_steps = 10
                 /\ ~p.strategy.some
            /\ ~hparams.local =>
                 /\ p.precision = 16
                 /\ p.strategy.some
                 /\ hparams.deepspeed_stage_3 => p.strategy.v = "ddp_sharded"
                 /\ ~hparams.deepspeed_stage_3 => p.strategy.v = "deepspeed_stage_2"

(***************************************************************************)
(* C9: constructing the adapter with a truthy num_samples always fails     *)
(* with an attribute error before the adapter is usable, whether or not    *)
(* the count exceeds the number of examples; with num_samples None or 0 it *)
(* succeeds, nothing is limited, and the adapter's length is the number of *)
(* source texts of the dataset.                                            *)
(***************************************************************************)
C9_SampleLimitAlwaysFails ==
    (unit = "dataset" /\ pc \in {"constructed", "failed"}) =>
        /\ (ds_args.num_samples.some /\ ds_args.num_samples.v # 0) =>
             /\ pc = "failed"
             /\ error = "AttributeError"
             /\ "input_length" \notin DOMAIN adapter
             /\ "tokenizer" \notin DOMAIN adapter
        /\ ~(ds_args.num_samples.some /\ ds_args.num_samples.v # 0) =>
             /\ pc = "constructed"
             /\ error = "none"
             /\ "dataset" \notin DOMAIN adapter
             /\ adapter.text = ds_args.dataset.text
             /\ CustomDataset_len(adapter) = Len(ds_args.dataset.text)

\* a count within the number of examples has failed
C9_Witness ==
    /\ unit = "dataset" /\ pc = "failed"
    /\ error = "AttributeError"
    /\ Len(ds_args.dataset.text) > 0
    /\ ds_args.num_samples.v <= Len(ds_args.dataset.text)

\* a count beyond the number of examples has failed
CountBeyondFails ==
    /\ unit = "dataset" /\ pc = "failed"
    /\ ds_args.num_samples.v > Len(ds_args.dataset.text)

(***************************************************************************)
(* C10: clean_text is idempotent: cleaning the cleaned text changes        *)
(* nothing.                                                                *)
(***************************************************************************)
C10_CleanTextIdempotent ==
    (unit = "clean_text" /\ pc = "recleaned") => recleaned = cleaned

====
